---- MODULE Spec2Model ----
(***************************************************************************)
(* git-quick-clone: the command-line entry point (main.py) and the clone   *)
(* orchestrator RepoCloner (clone.py).                                     *)
(*                                                                         *)
(* Representation.  A Python str is a sequence of text chunks, each chunk  *)
(* a TLA+ string; "" is <<>> and concatenation (f-strings) is \o.  An      *)
(* Optional value is None == <<>> or Some(v) == <<v>>.                     *)
(***************************************************************************)
EXTENDS Integers, Sequences, FiniteSets, TLC

\* ------------------------------------------------------------------ bounds
\* number of invocations of the command-line program on one file system
MaxCalls == 2
\* largest --shallow depth tried
MaxDepth == 1

\* ---------------------------------------------------------------- optional
None == <<>>
Some(v) == <<v>>
IsNone(o) == o = <<>>
Val(o) == o[1]

\* Python truthiness of an Optional[str]: None and "" are both falsy
Truthy(o) == ~IsNone(o) /\ Val(o) /= <<>>

\* str.startswith / str.endswith on chunk sequences
StartsWith(s, p) == Len(s) >= Len(p) /\ SubSeq(s, 1, Len(p)) = p
EndsWith(s, p) == Len(s) >= Len(p) /\ SubSeq(s, Len(s) - Len(p) + 1, Len(s)) = p

\* ----------------------------------------------------------- urllib.parse
\* index of the first chunk of s at or after position i that is in stops,
\* Len(s)+1 when there is none
RECURSIVE FirstAt(_, _, _)
FirstAt(s, i, stops) ==
    IF i > Len(s) THEN Len(s) + 1
    ELSE IF s[i] \in stops THEN i
    ELSE FirstAt(s, i + 1, stops)

\* urlparse(url): scheme, netloc (up to the first "/", "?" or "#") and the rest
urlparse(url) ==
    IF Len(url) >= 1 /\ url[1] = "https://"
    THEN LET e == FirstAt(url, 2, {"/", "?", "#"})
         IN  [scheme |-> <<"https">>,
              netloc |-> SubSeq(url, 2, e - 1),
              path   |-> SubSeq(url, e, Len(url))]
    ELSE [scheme |-> <<>>, netloc |-> <<>>, path |-> url]

\* urlunparse((scheme, netloc, path, "", "", ""))
urlunparse(scheme, netloc, path) ==
    IF scheme /= <<>> THEN <<"https://">> \o netloc \o path
    ELSE netloc \o path

\* -------------------------------------------------------------- clone.py
\* inject_token without the test of the host
inject_token_any_host(url, token) ==
    IF ~Truthy(token) \/ ~StartsWith(url, <<"https://">>) THEN url
    ELSE LET parsed == urlparse(url)
         IN  urlunparse(parsed.scheme, Val(token) \o <<"@">> \o parsed.netloc, parsed.path)

\* inject_token(url, token)
inject_token(url, token) ==
    IF ~Truthy(token) \/ ~StartsWith(url, <<"https://">>) THEN url
    ELSE LET parsed == urlparse(url)
         IN  IF parsed.netloc /= <<"github.com">> THEN url
             ELSE urlunparse(parsed.scheme,
                             Val(token) \o <<"@">> \o parsed.netloc,
                             parsed.path)

\* RepoCloner._init_repo: the commands it issues, in order
_init_repo(repo_info) ==
    LET clone_url == inject_token(repo_info.url, repo_info.access_token)
    IN  << <<"git init">>,
           <<"git remote add origin ">> \o clone_url >>

\* RepoCloner._fetch_sparse
_fetch_sparse(sparse_path) ==
    << <<"git config remote.origin.promisor true">>,
       <<"git config remote.origin.partialclonefilter \"tree:0\"">>,
       <<"git fetch --filter=tree:0 origin">>,
       <<"git sparse-checkout init --cone">>,
       <<"git config core.sparseCheckout true">>,
       <<"git sparse-checkout set ">> \o sparse_path >>

\* _fetch with the depth test ahead of the sparse test
_fetch_depth_first(repo_info, shallow_depth, full) ==
    IF full THEN << <<"git fetch origin">> >>
    ELSE IF ~IsNone(shallow_depth)
         THEN << <<"git fetch --depth=", ToString(Val(shallow_depth)), " origin">> >>
    ELSE IF ~IsNone(repo_info.sparse_path) THEN _fetch_sparse(Val(repo_info.sparse_path))
    ELSE << <<"git fetch --filter=tree:0 origin">> >>

\* _fetch testing the truthiness of sparse_path instead of "is not None"
_fetch_truthy(repo_info, shallow_depth, full) ==
    IF full THEN << <<"git fetch origin">> >>
    ELSE IF Truthy(repo_info.sparse_path) THEN _fetch_sparse(Val(repo_info.sparse_path))
    ELSE IF ~IsNone(shallow_depth)
         THEN << <<"git fetch --depth=", ToString(Val(shallow_depth)), " origin">> >>
    ELSE << <<"git fetch --filter=tree:0 origin">> >>

\* RepoCloner._fetch
_fetch(repo_info, shallow_depth, full) ==
    IF full THEN << <<"git fetch origin">> >>
    ELSE IF ~IsNone(repo_info.sparse_path) THEN _fetch_sparse(Val(repo_info.sparse_path))
    ELSE IF ~IsNone(shallow_depth)
         THEN << <<"git fetch --depth=", ToString(Val(shallow_depth)), " origin">> >>
    ELSE << <<"git fetch --filter=tree:0 origin">> >>

\* RepoCloner._setup_branch
_setup_branch ==
    << <<"git remote set-head origin --auto">>,
       <<"git branch -f master origin/HEAD">>,
       <<"git checkout master">>,
       <<"git branch --set-upstream-to=origin/HEAD master">>,
       <<"git config push.default upstream">> >>

\* _init_submodules that looks at the depth alone
_init_submodules_depth_only(shallow_depth, full) ==
    IF ~IsNone(shallow_depth)
    THEN << <<"git submodule update --init --recursive">> >>
    ELSE << <<"git submodule update --init --recursive --filter=tree:0">> >>

\* RepoCloner._init_submodules
_init_submodules(shallow_depth, full) ==
    IF full \/ ~IsNone(shallow_depth)
    THEN << <<"git submodule update --init --recursive">> >>
    ELSE << <<"git submodule update --init --recursive --filter=tree:0">> >>


\* clone with the branch set up before the fetch
CloneBodyBranchBeforeFetch(repo_info) ==
    <<"_init_repo", "_setup_branch", "_fetch">>
        \o (IF ~Truthy(repo_info.sparse_path) THEN <<"_init_submodules">> ELSE <<>>)

\* RepoCloner.clone: the methods it calls after creating the destination,
\* in order; _init_submodules only when sparse_path is falsy
CloneBody(repo_info) ==
    <<"_init_repo", "_fetch", "_setup_branch">>
        \o (IF ~Truthy(repo_info.sparse_path) THEN <<"_init_submodules">> ELSE <<>>)

\* the commands of one method, with _setup_branch creating and checking out
\* the descriptor's branch when it names one
MethodCmdsBranchAware(m, repo_info, shallow_depth, full) ==
    CASE m = "_init_repo"       -> _init_repo(repo_info)
      [] m = "_fetch"           -> _fetch(repo_info, shallow_depth, full)
      [] m = "_setup_branch"    ->
            IF IsNone(repo_info.branch) THEN _setup_branch
            ELSE << <<"git remote set-head origin --auto">>,
                    <<"git branch -f ">> \o Val(repo_info.branch)
                        \o <<" origin/">> \o Val(repo_info.branch),
                    <<"git checkout ">> \o Val(repo_info.branch),
                    <<"git branch --set-upstream-to=origin/">>
                        \o Val(repo_info.branch) \o <<" ">> \o Val(repo_info.branch),
                    <<"git config push.default upstream">> >>
      [] m = "_init_submodules" -> _init_submodules(shallow_depth, full)

\* the commands of one method of RepoCloner
MethodCmds(m, repo_info, shallow_depth, full) ==
    CASE m = "_init_repo"       -> _init_repo(repo_info)
      [] m = "_fetch"           -> _fetch(repo_info, shallow_depth, full)
      [] m = "_setup_branch"    -> _setup_branch
      [] m = "_init_submodules" -> _init_submodules(shallow_depth, full)

\* ------------------------------------------------- inputs of an invocation
GithubOR == <<"https://", "github.com", "/", "o", "/", "r", ".git">>
GitlabOR == <<"https://", "gitlab.com", "/", "o", "/", "r", ".git">>
SshOR    == <<"git@", "github.com", ":", "o", "/", "r", ".git">>
DirGithubOR == <<"github.com", "/", "o", "/", "r">>
DirGitlabOR == <<"gitlab.com", "/", "o", "/", "r">>

\* the one destination directory every invocation of a behaviour targets
DEST == DirGithubOR

RepoInfo(url, dest_dir, branch, sparse_path) ==
    [url |-> url, dest_dir |-> dest_dir, user |-> <<"o">>, repo |-> <<"r">>,
     branch |-> branch, sparse_path |-> sparse_path, access_token |-> None]

\* descriptors as parse_repo_url returns them (access_token still None):
\* plain, tree/<branch>, blob/<branch>/<file>, tree/<branch>/docs, another
\* host, SSH form
ParsedInfos ==
    { RepoInfo(GithubOR, DirGithubOR, None, None),
      RepoInfo(GithubOR, DirGithubOR, Some(<<"main">>), None),
      RepoInfo(GithubOR, DirGithubOR, Some(<<"main">>), Some(<<>>)),
      RepoInfo(GithubOR, DirGithubOR, Some(<<"main">>), Some(<<"docs">>)),
      RepoInfo(GitlabOR, DirGitlabOR, None, None),
      RepoInfo(SshOR, DirGithubOR, None, None) }

\* resolved access tokens (access_token(token) of main.py)
Tokens == {None, Some(<<"tok">>)}
Depths == {None} \cup {Some(d) : d \in 1..MaxDepth}
DestArgs == {None, Some(DEST)}

\* ------------------------------------------------------------ file system
\* state of the destination directory: whether it exists, whether it holds
\* a .git directory, the registered origin URL, and the commands that have
\* succeeded in it
NoDir == [exists |-> FALSE, gitdir |-> FALSE, origin |-> None, applied |-> <<>>]
EmptyDir == [NoDir EXCEPT !.exists = TRUE]
RepoDir(origin) == [exists |-> TRUE, gitdir |-> TRUE, origin |-> origin, applied |-> <<>>]

InitialDirs ==
    { NoDir, EmptyDir, RepoDir(None),
      RepoDir(Some(GithubOR)),
      RepoDir(Some(<<"https://", "tok", "@", "github.com", "/", "o", "/", "r", ".git">>)),
      RepoDir(Some(<<"https://", "github.com", "/", "o", "/", "r">>)),
      RepoDir(Some(GitlabOR)) }

\* effect of a command that exited 0 on the destination directory
Effect(d, cmd) ==
    LET d1 == [d EXCEPT !.applied = Append(@, cmd)]
    IN  IF cmd = <<"git init">> THEN [d1 EXCEPT !.gitdir = TRUE]
        ELSE IF StartsWith(cmd, <<"git remote add origin ">>)
             THEN [d1 EXCEPT !.origin = Some(SubSeq(cmd, 2, Len(cmd)))]
        ELSE d1

\* Path.resolve(): the absolute path of a relative one
resolve(path) == <<"/cwd/">> \o path

\* ------------------------------------------- helpers imported by main.py
\* _normalize_clone_url: credentials and the .git suffix normalized away
_normalize_clone_url(url) ==
    LET a == FirstAt(url, 2, {"@", "/"})
        nocred == IF StartsWith(url, <<"https://">>) /\ a <= Len(url) /\ url[a] = "@"
                  THEN <<"https://">> \o SubSeq(url, a + 1, Len(url))
                  ELSE url
    IN  IF EndsWith(nocred, <<".git">>) THEN SubSeq(nocred, 1, Len(nocred) - 1)
        ELSE nocred

\* get_remote_url(dest): the registered origin, normalized; None without one
get_remote_url(d) ==
    IF IsNone(d.origin) THEN None ELSE Some(_normalize_clone_url(Val(d.origin)))

\* ------------------------------------------------------------------ state
VARIABLES
    fs,          \* the destination directory
    fs0,         \* the destination directory when the current invocation began
    repo_info,   \* descriptor of the current invocation (with access_token)
    dest_dir,    \* dest_dir argument
    shallow,     \* --shallow
    full,        \* --full
    pc,          \* position of the current invocation
    i,           \* index of the next command within the current method
    issued,      \* commands sh() has run in this invocation, with exit status
    logrec,      \* log records emitted in this invocation
    stdout,      \* lines echoed to stdout in this invocation
    stderr,      \* lines echoed to stderr in this invocation
    ret,         \* value returned by RepoCloner.clone
    exit_code,   \* process exit status, None while running
    raised,      \* exception that ended the invocation, "" if none
    calls        \* invocations so far

\* a single call of one of the pure functions (parse, access_token,
\* inject_token), checked on its own
VARIABLES
    fn,          \* function called, "idle" when none is
    fin,         \* its arguments
    fout         \* its result, <<>> until it has returned

fnvars == <<fn, fin, fout>>

\* the other skills of the repository: ctrlv (ClipboardWriter) and
\* shell-helper (tmux)
VARIABLES
    ctrlv_dir,   \* ClipboardWriter.dest_dir on disk: [exists, files]
    written,     \* the last write_all call: its arguments, the directory before it, its result
    sessions,    \* names of the tmux sessions of the server
    renumber     \* the running _renumber_sessions call

skillvars == <<ctrlv_dir, written, sessions, renumber>>

\* no ClipboardWriter call and no tmux call has happened
NoSkills ==
    /\ ctrlv_dir = [exists |-> FALSE, files |-> {}]
    /\ written = [n |-> 0, items |-> <<>>, append |-> FALSE, before |-> {}, paths |-> <<>>]
    /\ sessions = {}
    /\ renumber = [pc |-> "idle", start |-> {}, todo |-> <<>>, k |-> 1, log |-> <<>>]

vars == <<fs, fs0, repo_info, dest_dir, shallow, full, pc, i, issued, logrec,
          stdout, stderr, ret, exit_code, raised, calls, fn, fin, fout,
          ctrlv_dir, written, sessions, renumber>>

args == <<repo_info, dest_dir, shallow, full>>
outs == <<stdout, stderr, ret, exit_code, raised>>

\* dest = Path(dest_dir or repo_info.dest_dir)
dest == IF Truthy(dest_dir) THEN Val(dest_dir) ELSE repo_info.dest_dir

\* argument combinations whose destination is DEST
Invocations ==
    { a \in [info : ParsedInfos, token : Tokens, dest_dir : DestArgs,
             shallow : Depths, full : BOOLEAN] :
        (IF Truthy(a.dest_dir) THEN Val(a.dest_dir) ELSE a.info.dest_dir) = DEST }

\* start of main.clone: parse_repo_url, then repo_info.access_token = access_token(token)
Begin(a) ==
    /\ repo_info' = [a.info EXCEPT !.access_token = a.token]
    /\ dest_dir' = a.dest_dir
    /\ shallow' = a.shallow
    /\ full' = a.full
    /\ pc' = "main"
    /\ i' = 1
    /\ issued' = <<>>
    /\ logrec' = <<>>
    /\ stdout' = <<>>
    /\ stderr' = <<>>
    /\ ret' = None
    /\ exit_code' = None
    /\ raised' = ""

Init ==
    /\ fs \in InitialDirs
    /\ fs0 = fs
    /\ calls = 1
    /\ \E a \in Invocations :
        /\ repo_info = [a.info EXCEPT !.access_token = a.token]
        /\ dest_dir = a.dest_dir
        /\ shallow = a.shallow
        /\ full = a.full
    /\ pc = "main"
    /\ i = 1
    /\ issued = <<>>
    /\ logrec = <<>>
    /\ stdout = <<>>
    /\ stderr = <<>>
    /\ ret = None
    /\ exit_code = None
    /\ raised = ""
    /\ fn = "idle"
    /\ fin = <<>>
    /\ fout = <<>>
    /\ NoSkills

\* ---------------------------------------------------------------- actions
\* main.clone without the check of an existing destination
MainNoCheck ==
    /\ pc = "main"
    /\ pc' = "clone"
    /\ UNCHANGED <<fs, fs0, args, i, issued, logrec, outs, calls, fnvars, skillvars>>

\* main.clone, the check of an existing destination
Main ==
    /\ pc = "main"
    /\ IF fs.exists /\ fs.gitdir
       THEN LET existing == get_remote_url(fs)
                expected == _normalize_clone_url(repo_info.url)
            IN  IF existing = Some(expected)
                THEN /\ stdout' = Append(stdout, resolve(dest))
                     /\ exit_code' = Some(0)
                     /\ pc' = "exited"
                     /\ UNCHANGED <<stderr, raised>>
                ELSE /\ stderr' = Append(stderr,
                            <<"Target '">> \o dest
                              \o <<"' already contains a different repo (origin: ">>
                              \o (IF IsNone(existing) THEN <<"None">> ELSE Val(existing))
                              \o <<")">>)
                     /\ exit_code' = Some(1)
                     /\ raised' = "Exit"
                     /\ pc' = "exited"
                     /\ UNCHANGED stdout
       ELSE /\ pc' = "clone"
            /\ UNCHANGED <<stdout, stderr, exit_code, raised>>
    /\ UNCHANGED <<fs, fs0, args, i, issued, logrec, ret, calls, fnvars, skillvars>>

\* RepoCloner.clone, self.dest.mkdir(parents=True, exist_ok=True)
Mkdir ==
    /\ pc = "clone"
    /\ \E ok \in BOOLEAN :
        IF ok
        THEN /\ fs' = [fs EXCEPT !.exists = TRUE]
             /\ pc' = Head(CloneBody(repo_info))
             /\ i' = 1
             /\ UNCHANGED <<exit_code, raised>>
        ELSE /\ exit_code' = Some(1)
             /\ raised' = "OSError"
             /\ pc' = "exited"
             /\ UNCHANGED <<fs, i>>
    /\ UNCHANGED <<fs0, args, issued, logrec, stdout, stderr, ret, calls, fnvars, skillvars>>

\* the method that follows m in clone, "return" after the last one
NextMethod(m) ==
    LET body == CloneBody(repo_info)
        k == CHOOSE j \in 1..Len(body) : body[j] = m
    IN  IF k < Len(body) THEN body[k + 1] ELSE "return"

\* sh that tries a failing command a second time
ShRetry(m) ==
    LET cmds == MethodCmds(m, repo_info, shallow, full)
        cmd == cmds[i]
    IN  /\ logrec' = Append(logrec, <<"$ ">> \o cmd)
        /\ \E rc \in {0, 1} :
            /\ issued' = Append(issued, [cmd |-> cmd, rc |-> rc])
            /\ IF rc = 0
               THEN /\ fs' = Effect(fs, cmd)
                    /\ IF i < Len(cmds)
                       THEN i' = i + 1 /\ pc' = m
                       ELSE i' = 1 /\ pc' = NextMethod(m)
                    /\ UNCHANGED <<exit_code, raised>>
               ELSE /\ IF Len(issued) > 0 /\ issued[Len(issued)].rc /= 0
                       THEN /\ exit_code' = Some(1)
                            /\ raised' = "CalledProcessError"
                            /\ pc' = "exited"
                       ELSE UNCHANGED <<exit_code, raised, pc>>
                    /\ UNCHANGED <<fs, i>>

\* sh(cmd, cwd=self.dest): log the command, run it; check=True raises
\* CalledProcessError on a non-zero exit status
Sh(m) ==
    LET cmds == MethodCmds(m, repo_info, shallow, full)
        cmd == cmds[i]
    IN  /\ logrec' = Append(logrec, <<"$ ">> \o cmd)
        /\ \E rc \in {0, 1} :
            /\ issued' = Append(issued, [cmd |-> cmd, rc |-> rc])
            /\ IF rc = 0
               THEN /\ fs' = Effect(fs, cmd)
                    /\ IF i < Len(cmds)
                       THEN i' = i + 1 /\ pc' = m
                       ELSE i' = 1 /\ pc' = NextMethod(m)
                    /\ UNCHANGED <<exit_code, raised>>
               ELSE /\ exit_code' = Some(1)
                    /\ raised' = "CalledProcessError"
                    /\ pc' = "exited"
                    /\ UNCHANGED <<fs, i>>

\* _init_repo that writes the token-injected URL back into the descriptor
InitRepoStoresUrl ==
    /\ pc = "_init_repo"
    /\ Sh("_init_repo")
    /\ repo_info' = [repo_info EXCEPT
                        !.url = inject_token(repo_info.url, repo_info.access_token)]
    /\ UNCHANGED <<fs0, dest_dir, shallow, full, stdout, stderr, ret, calls, fnvars, skillvars>>

\* one command of RepoCloner._init_repo
InitRepo ==
    /\ pc = "_init_repo"
    /\ Sh("_init_repo")
    /\ UNCHANGED <<fs0, args, stdout, stderr, ret, calls, fnvars, skillvars>>

\* one command of RepoCloner._fetch (and _fetch_sparse)
Fetch ==
    /\ pc = "_fetch"
    /\ Sh("_fetch")
    /\ UNCHANGED <<fs0, args, stdout, stderr, ret, calls, fnvars, skillvars>>

\* one command of RepoCloner._setup_branch
SetupBranch ==
    /\ pc = "_setup_branch"
    /\ Sh("_setup_branch")
    /\ UNCHANGED <<fs0, args, stdout, stderr, ret, calls, fnvars, skillvars>>

\* the command of RepoCloner._init_submodules
InitSubmodules ==
    /\ pc = "_init_submodules"
    /\ Sh("_init_submodules")
    /\ UNCHANGED <<fs0, args, stdout, stderr, ret, calls, fnvars, skillvars>>

\* RepoCloner.clone returns self.dest.resolve(); main.clone echoes it
Return ==
    /\ pc = "return"
    /\ ret' = Some(resolve(dest))
    /\ stdout' = Append(stdout, resolve(dest))
    /\ exit_code' = Some(0)
    /\ pc' = "exited"
    /\ UNCHANGED <<fs, fs0, args, i, issued, logrec, stderr, raised, calls, fnvars, skillvars>>

\* the program is run again on the same file system
Invoke ==
    /\ pc = "exited"
    /\ calls < MaxCalls
    /\ calls' = calls + 1
    /\ fs0' = fs
    /\ \E a \in Invocations : Begin(a)
    /\ UNCHANGED <<fs, fnvars, skillvars>>

Next ==
    \/ Main
    \/ Mkdir
    \/ InitRepo
    \/ Fetch
    \/ SetupBranch
    \/ InitSubmodules
    \/ Return
    \/ Invoke

Spec == Init /\ [][Next]_vars

TypeOK ==
    /\ pc \in {"main", "clone", "_init_repo", "_fetch", "_setup_branch",
               "_init_submodules", "return", "exited"}
    /\ calls \in 1..MaxCalls
    /\ exit_code \in {None, Some(0), Some(1)}
    /\ raised \in {"", "Exit", "OSError", "CalledProcessError"}

\* ----------------------------------------------------- reading the record
\* the k-th command issued in this invocation
Cmd(k) == issued[k].cmd
Cmds == [k \in 1..Len(issued) |-> issued[k].cmd]
Issued(cmd) == \E k \in 1..Len(issued) : Cmd(k) = cmd

FetchFull     == <<"git fetch origin">>
FetchTreeless == <<"git fetch --filter=tree:0 origin">>
FetchDepth(d) == <<"git fetch --depth=", ToString(d), " origin">>
IsFetchCmd(cmd) ==
    cmd[1] \in {"git fetch origin", "git fetch --filter=tree:0 origin", "git fetch --depth="}

SubmodulePlain    == <<"git submodule update --init --recursive">>
SubmoduleFiltered == <<"git submodule update --init --recursive --filter=tree:0">>
IsSubmoduleCmd(cmd) == cmd \in {SubmodulePlain, SubmoduleFiltered}

\* the commands that only the sparse strategy issues
IsSparseOnlyCmd(cmd) ==
    cmd[1] \in {"git config remote.origin.promisor true",
                "git config remote.origin.partialclonefilter \"tree:0\"",
                "git sparse-checkout init --cone",
                "git config core.sparseCheckout true",
                "git sparse-checkout set "}

\* step of the ordered protocol a command belongs to (1 is the creation of
\* the destination directory, which is no command); 0 for an unknown command
StepOf(cmd) ==
    CASE cmd = <<"git init">> -> 2
      [] StartsWith(cmd, <<"git remote add origin ">>) -> 3
      [] IsFetchCmd(cmd) \/ IsSparseOnlyCmd(cmd) -> 4
      [] cmd = <<"git remote set-head origin --auto">> -> 5
      [] cmd = <<"git branch -f master origin/HEAD">> -> 6
      [] cmd = <<"git checkout master">> -> 7
      [] cmd = <<"git branch --set-upstream-to=origin/HEAD master">> -> 8
      [] cmd = <<"git config push.default upstream">> -> 9
      [] IsSubmoduleCmd(cmd) -> 10
      [] OTHER -> 0

\* the fetch step has been completed in this invocation
FetchStepDone == pc \in {"_setup_branch", "_init_submodules", "return"} \/ ~IsNone(ret)

\* C1: the commands of a clone run are issued one after another in protocol
\* order -- destination created, git init, git remote add origin, the
\* fetch-strategy commands, the five branch-setup commands, then the
\* submodule command if any -- with no step skipped, branch setup present in
\* every run that gets past it whatever the fetch strategy, and a command
\* issued only after every earlier one has exited 0.
C1_OrderedProtocol ==
    LET n == Len(issued)
    IN  /\ n > 0 => fs.exists /\ StepOf(Cmd(1)) = 2
        /\ \A k \in 2..n :
            /\ issued[k - 1].rc = 0
            /\ StepOf(Cmd(k - 1)) <= StepOf(Cmd(k))
            /\ StepOf(Cmd(k)) <= StepOf(Cmd(k - 1)) + 1
            /\ StepOf(Cmd(k)) = StepOf(Cmd(k - 1)) => StepOf(Cmd(k)) = 4
        /\ \A k \in 1..n :
            StepOf(Cmd(k)) = 5 => SubSeq(Cmds, 3, k - 1) = _fetch(repo_info, shallow, full)
        /\ (pc \in {"_init_submodules", "return"} \/ ~IsNone(ret)) =>
            \E k \in 1..n : StepOf(Cmd(k)) = 9 /\ issued[k].rc = 0

\* C1 witness: a shallow clone has run to its end, submodule command last
C1_Witness ==
    /\ ~IsNone(ret)
    /\ ~IsNone(shallow) /\ ~full
    /\ Len(issued) = 9
    /\ Cmd(9) = SubmodulePlain

\* C2: a command that exits non-zero is the last one issued: the invocation
\* has ended with CalledProcessError and a non-zero status, nothing was
\* returned or printed, and every command that succeeded before it has kept
\* its effect on the destination.
C2_FailFast ==
    /\ \A k \in 1..Len(issued) :
        issued[k].rc /= 0 =>
            /\ k = Len(issued)
            /\ pc = "exited"
            /\ raised = "CalledProcessError"
            /\ exit_code = Some(1)
            /\ IsNone(ret)
            /\ stdout = <<>>
    /\ LET ok == SelectSeq(issued, LAMBDA e : e.rc = 0)
       IN  /\ fs.applied = fs0.applied \o [k \in 1..Len(ok) |-> ok[k].cmd]
           /\ Len(ok) >= 1 => fs.exists /\ fs.gitdir
           /\ Len(ok) >= 2 => fs.origin = Some(SubSeq(ok[2].cmd, 2, Len(ok[2].cmd)))

\* C2 witness: the fetch failed after git init and git remote add succeeded
C2_Witness ==
    /\ pc = "exited"
    /\ raised = "CalledProcessError"
    /\ Len(issued) = 3
    /\ issued[3].rc = 1
    /\ fs.gitdir /\ ~IsNone(fs.origin)

\* C3: the fetch strategy follows the priority full, then sparse_path
\* present, then depth, then the treeless default; at most one git fetch is
\* ever issued, and exactly one once the fetch step is complete.
C3_FetchStrategy ==
    LET fetches == {k \in 1..Len(issued) : IsFetchCmd(Cmd(k))}
        sparse == repo_info.sparse_path
    IN  /\ Cardinality(fetches) <= 1
        /\ FetchStepDone => Cardinality(fetches) = 1
        /\ \A k \in fetches :
            IF full
            THEN Cmd(k) = FetchFull
            ELSE IF ~IsNone(sparse)
            THEN /\ Cmd(k) = FetchTreeless
                 /\ k >= 3
                 /\ Cmd(k - 2) = <<"git config remote.origin.promisor true">>
                 /\ Cmd(k - 1) = <<"git config remote.origin.partialclonefilter \"tree:0\"">>
                 /\ FetchStepDone =>
                        /\ Len(issued) >= k + 3
                        /\ Cmd(k + 1) = <<"git sparse-checkout init --cone">>
                        /\ Cmd(k + 3) = <<"git sparse-checkout set ">> \o Val(sparse)
            ELSE IF ~IsNone(shallow)
            THEN Cmd(k) = FetchDepth(Val(shallow))
            ELSE Cmd(k) = FetchTreeless
        /\ (full \/ IsNone(sparse)) =>
            \A k \in 1..Len(issued) : ~IsSparseOnlyCmd(Cmd(k))

\* C3 witness: sparse_path and depth both given, the sparse strategy ran
C3_Witness ==
    /\ FetchStepDone
    /\ ~full
    /\ repo_info.sparse_path = Some(<<"docs">>)
    /\ ~IsNone(shallow)
    /\ Issued(FetchTreeless)

\* the whole command sequence of a clone run in which every command succeeds
RECURSIVE Concat(_)
Concat(seqs) == IF seqs = <<>> THEN <<>> ELSE Head(seqs) \o Concat(Tail(seqs))

PlannedCmds(info, shallow_depth, full_flag) ==
    LET body == CloneBody(info)
    IN  Concat([k \in 1..Len(body) |-> MethodCmds(body[k], info, shallow_depth, full_flag)])

\* a run that returns has issued exactly the planned commands
RunFollowsPlan == ~IsNone(ret) => Cmds = PlannedCmds(repo_info, shallow, full)

\* C4 (as claimed): with sparse_path present and full false, the commands of
\* a completed run, from git init to the last one, are those of the same run
\* with any other depth, or with none.
C4_DepthIgnoredWhenSparse ==
    (~IsNone(ret) /\ ~full /\ ~IsNone(repo_info.sparse_path)) =>
        \A d \in Depths : Cmds = PlannedCmds(repo_info, d, full)

\* C5 (as claimed): with sparse_path present, "" included, no submodule
\* command is ever issued.
C5_NoSubmodulesWhenSparse ==
    ~IsNone(repo_info.sparse_path) =>
        \A k \in 1..Len(issued) : ~IsSubmoduleCmd(Cmd(k))

\* C6 (as claimed): every successful run with full set issues the unfiltered
\* submodule command, whatever sparse_path and depth are.
C6_FullAlwaysInitsSubmodules ==
    (~IsNone(ret) /\ full) => Issued(SubmodulePlain)

\* C6 (amended): every successful run with full set and sparse_path absent
\* issues the unfiltered submodule command as its last command, for every
\* depth; no run with full set ever issues the filtered one; and with a
\* non-empty sparse_path no submodule command is issued even when full is set.
C6_FullInitsSubmodulesUnfiltered ==
    /\ (~IsNone(ret) /\ full /\ IsNone(repo_info.sparse_path)) =>
            (issued /= <<>> /\ Cmd(Len(issued)) = SubmodulePlain)
    /\ full => ~Issued(SubmoduleFiltered)
    /\ (full /\ Truthy(repo_info.sparse_path)) =>
            \A k \in 1..Len(issued) : ~IsSubmoduleCmd(Cmd(k))

\* C6 witness: a full clone without sparse_path or depth has run to its end
C6_Witness ==
    /\ ~IsNone(ret)
    /\ full
    /\ IsNone(repo_info.sparse_path)
    /\ IsNone(shallow)
    /\ Issued(SubmodulePlain)

\* C7: with full false, a present sparse_path -- "" exactly as a non-empty
\* one -- gets the whole sparse strategy: promisor and partialclonefilter
\* configuration, the filtered fetch, cone-mode sparse-checkout init and a
\* sparse-checkout set of the path; an absent sparse_path gets none of the
\* sparse-checkout commands.
C7_EmptySparsePathIsSparse ==
    LET sparse == repo_info.sparse_path
    IN  (FetchStepDone /\ ~full) =>
            IF ~IsNone(sparse)
            THEN /\ Len(issued) >= 8
                 /\ SubSeq(Cmds, 3, 8) =
                    << <<"git config remote.origin.promisor true">>,
                       <<"git config remote.origin.partialclonefilter \"tree:0\"">>,
                       <<"git fetch --filter=tree:0 origin">>,
                       <<"git sparse-checkout init --cone">>,
                       <<"git config core.sparseCheckout true">>,
                       <<"git sparse-checkout set ">> \o Val(sparse) >>
            ELSE \A k \in 1..Len(issued) : ~IsSparseOnlyCmd(Cmd(k))

\* C7 witness: the fetch step is complete for an empty-string sparse_path
C7_Witness ==
    /\ FetchStepDone
    /\ ~full
    /\ repo_info.sparse_path = Some(<<>>)
    /\ Issued(<<"git sparse-checkout set ">>)

\* the fetch step consisted of the default treeless partial fetch alone
DefaultFetch ==
    /\ Issued(FetchTreeless)
    /\ \A k \in 1..Len(issued) : ~IsSparseOnlyCmd(Cmd(k))

\* C8 (as claimed): a submodule command is unfiltered when full or depth is
\* set and filtered otherwise, and it is filtered if and only if the
\* top-level fetch was the default treeless partial fetch.
C8_SubmoduleModeFollowsFetch ==
    \A k \in 1..Len(issued) :
        IsSubmoduleCmd(Cmd(k)) =>
            /\ (full \/ ~IsNone(shallow)) => Cmd(k) = SubmodulePlain
            /\ ~(full \/ ~IsNone(shallow)) => Cmd(k) = SubmoduleFiltered
            /\ Cmd(k) = SubmoduleFiltered <=> DefaultFetch

\* the destination the invocation began with is a repository / one whose
\* registered remote, normalized, is the descriptor's canonical URL
BeganOnRepo == fs0.exists /\ fs0.gitdir
BeganOnSameRemote ==
    BeganOnRepo /\ get_remote_url(fs0) = Some(_normalize_clone_url(repo_info.url))

\* C9: an invocation on a destination that already holds the same canonical
\* remote issues no command and leaves the destination as it was, and ends
\* printing the destination path with status 0; and a destination a clone
\* has just completed is such a destination for the same descriptor.
C9_SameRemoteIsNoOp ==
    /\ BeganOnSameRemote =>
        /\ issued = <<>>
        /\ fs = fs0
        /\ pc \in {"main", "exited"}
        /\ pc = "exited" =>
            /\ stdout = <<resolve(dest)>>
            /\ stderr = <<>>
            /\ exit_code = Some(0)
            /\ raised = ""
    /\ ~IsNone(ret) =>
        /\ fs.exists /\ fs.gitdir
        /\ get_remote_url(fs) = Some(_normalize_clone_url(repo_info.url))

\* C9 witness: the clone that built the destination (with a token in the
\* registered remote) is repeated and has ended without issuing a command
C9_Witness ==
    /\ calls = 2
    /\ pc = "exited"
    /\ BeganOnSameRemote
    /\ Len(fs0.applied) >= 8
    /\ fs0.origin = Some(<<"https://", "tok", "@", "github.com", "/", "o", "/", "r", ".git">>)
    /\ issued = <<>>
    /\ exit_code = Some(0)

\* C10: an invocation on a destination that is a repository with another
\* registered remote issues no command, changes nothing in the destination,
\* prints no path, and ends with a non-zero status.
C10_DifferentRemoteConflicts ==
    (BeganOnRepo /\ ~BeganOnSameRemote) =>
        /\ issued = <<>>
        /\ fs = fs0
        /\ IsNone(ret)
        /\ stdout = <<>>
        /\ pc \in {"main", "exited"}
        /\ pc = "exited" =>
            /\ exit_code = Some(1)
            /\ raised = "Exit"
            /\ Len(stderr) = 1

\* C10 witness: the destination was cloned from github.com by the first
\* invocation, the second asks for the gitlab.com repository and has ended
C10_Witness ==
    /\ calls = 2
    /\ pc = "exited"
    /\ repo_info.url = GitlabOR
    /\ BeganOnRepo
    /\ fs0.origin = Some(GithubOR)
    /\ Len(fs0.applied) >= 2
    /\ exit_code = Some(1)

\* ------------------------------------------------------------ credentials
\* the chunks of a string
Chunks(str) == {str[k] : k \in 1..Len(str)}

\* the token of the current invocation occurs in a string
HasToken(str) ==
    Truthy(repo_info.access_token) /\ Chunks(Val(repo_info.access_token)) \subseteq Chunks(str)

\* C11: a clone run never changes the descriptor: from its first step to its
\* end repo_info keeps its value, its url is the parsed canonical URL and
\* holds no token, and the only command that holds the token is
\* git remote add origin.
C11_DescriptorNotMutated ==
    /\ [][pc /= "exited" => repo_info' = repo_info]_vars
    /\ [](/\ ~HasToken(repo_info.url)
          /\ repo_info.url \in {d.url : d \in ParsedInfos}
          /\ \A k \in 1..Len(issued) :
                HasToken(Cmd(k)) => StartsWith(Cmd(k), <<"git remote add origin ">>))

\* C11 witness: a clone with a token has run to its end, the token was in
\* the remote-add command and the descriptor still has the plain URL
C11_Witness ==
    /\ ~IsNone(ret)
    /\ repo_info.access_token = Some(<<"tok">>)
    /\ repo_info.url = GithubOR
    /\ Len(issued) >= 2
    /\ Cmd(2) = <<"git remote add origin ", "https://", "tok", "@", "github.com",
                  "/", "o", "/", "r", ".git">>

\* access_token that splits the environment value at its last colon
access_token_last_colon(token_arg, env_token) ==
    IF Truthy(token_arg) THEN token_arg
    ELSE IF ~Truthy(env_token) THEN None
    ELSE LET v == Val(env_token)
             colons == {k \in 1..Len(v) : v[k] = ":"}
         IN  IF colons /= {}
             THEN Some(SubSeq(v, (CHOOSE k \in colons : \A j \in colons : j <= k) + 1, Len(v)))
             ELSE env_token

\* access_token(token_arg), with the value of os.getenv("GITHUB_ACCESS") as
\* second argument
access_token(token_arg, env_token) ==
    IF Truthy(token_arg) THEN token_arg
    ELSE IF ~Truthy(env_token) THEN None
    ELSE LET v == Val(env_token)
         IN  IF ":" \in Chunks(v)
             THEN Some(SubSeq(v, FirstAt(v, 1, {":"}) + 1, Len(v)))
             ELSE env_token


\* ------------------------------------------- inputs of the pure functions
\* longest GITHUB_ACCESS value tried, in chunks
MaxEnvLen == 3

\* all sequences over the chunks of alphabet with at most n chunks
RECURSIVE SeqsUpTo(_, _)
SeqsUpTo(alphabet, n) ==
    IF n = 0 THEN {<<>>}
    ELSE LET shorter == SeqsUpTo(alphabet, n - 1)
         IN  shorter \cup {Append(t, c) : t \in shorter, c \in alphabet}

TokenArgs == {None, Some(<<>>), Some(<<"arg">>), Some(<<"u", ":", "arg">>)}
EnvValues == {None} \cup {Some(v) : v \in SeqsUpTo({"alice", ":", "tok"}, MaxEnvLen)}
AccessTokenInputs == {<<t, e>> : t \in TokenArgs, e \in EnvValues}

UrlHosts == {"github.com", "gitlab.com", "example.com"}
UrlTails == { <<"o", "/", "r", ".git">>, <<"o", "/", "r">>,
              <<"o", "/", "r", ".git", "?", "q">>, <<>> }
InjectUrls ==
    {<<scheme, h, "/">> \o t : scheme \in {"https://", "http://"}, h \in UrlHosts, t \in UrlTails}
        \cup {<<"https://", h>> : h \in UrlHosts}
        \cup {<<"git@", h, ":">> \o t : h \in UrlHosts, t \in UrlTails}
InjectTokens == {None, Some(<<>>), Some(<<"tok">>)}
InjectInputs == {<<u, t>> : u \in InjectUrls, t \in InjectTokens}

\* -------------------------------------------------------------- parser.py
\* Chunks of text.  "/" occurs in the chunk "/" and in the scheme chunks
\* only, "://" in the scheme chunks only, "@" in "@" and "git@" only, and
\* ".git" is always the chunk ".git".
SchemeChunks == {"https://", "http://", "ssh://"}
AtChunks == {"@", "git@"}
SlashChunks == {"/"} \cup SchemeChunks

\* str.count("/") where no scheme chunk occurs
CountSlash(str) == Cardinality({k \in 1..Len(str) : str[k] = "/"})

\* str.split(sep)
RECURSIVE Split(_, _)
Split(str, sep) ==
    LET k == FirstAt(str, 1, {sep})
    IN  IF k > Len(str) THEN <<str>>
        ELSE <<SubSeq(str, 1, k - 1)>> \o Split(SubSeq(str, k + 1, Len(str)), sep)

\* sep.join(parts)
RECURSIVE Join(_, _)
Join(parts, sep) ==
    IF parts = <<>> THEN <<>>
    ELSE IF Len(parts) = 1 THEN parts[1]
    ELSE parts[1] \o <<sep>> \o Join(Tail(parts), sep)

\* str.strip(c)
RECURSIVE Strip(_, _)
Strip(str, c) ==
    IF str /= <<>> /\ str[1] = c THEN Strip(Tail(str), c)
    ELSE IF str /= <<>> /\ str[Len(str)] = c THEN Strip(SubSeq(str, 1, Len(str) - 1), c)
    ELSE str

\* str.removesuffix(suffix)
removesuffix(str, suffix) ==
    IF EndsWith(str, suffix) THEN SubSeq(str, 1, Len(str) - Len(suffix)) ELSE str

\* urlparse(url).path: the path without query and fragment
urlpath(url) ==
    LET rest == urlparse(url).path
    IN  SubSeq(rest, 1, FirstAt(rest, 1, {"?", "#"}) - 1)

\* RepoInfo(url=..., dest_dir=..., user=..., repo=..., branch=..., sparse_path=...)
MkRepoInfo(url, dir, user, repo, branch, sparse_path) ==
    [url |-> url, dest_dir |-> dir, user |-> user, repo |-> repo,
     branch |-> branch, sparse_path |-> sparse_path, access_token |-> None]

\* a returned descriptor / a raised ValueError
Ok(info) == [error |-> "", info |-> info]
Err(msg) == [error |-> msg, info |-> <<>>]

\* _parse_shorthand without the test of the number of slashes
_parse_shorthand_nested(repo_url) ==
    LET parts == Split(repo_url, "/")
    IN  Ok(MkRepoInfo(<<"https://", "github.com", "/">> \o repo_url,
                      <<"github.com", "/">> \o repo_url,
                      parts[1], Join(Tail(parts), "/"), None, None))

\* RepoURLParser._parse_shorthand
_parse_shorthand(repo_url) ==
    IF CountSlash(repo_url) /= 1
    THEN Err("Only user/repo format is supported, not org/user/repo")
    ELSE LET parts == Split(repo_url, "/")
         IN  Ok(MkRepoInfo(<<"https://", "github.com", "/">> \o repo_url,
                           <<"github.com", "/">> \o repo_url,
                           parts[1], parts[2], None, None))

\* TreeBlob that keeps the file name of a blob URL in sparse_path
TreeBlobFileAsDir(parts) ==
    IF Len(parts) > 3 /\ parts[3] \in {<<"tree">>, <<"blob">>}
    THEN [branch |-> Some(parts[4]),
          sparse_path |-> IF Len(parts) > 4
                          THEN Some(Join(SubSeq(parts, 5, Len(parts)), "/"))
                          ELSE IF parts[3] = <<"blob">> THEN Some(<<>>) ELSE None]
    ELSE [branch |-> None, sparse_path |-> None]

\* TreeBlob that gives a tree URL without a directory the sparse_path ""
TreeBlobTreeEmpty(parts) ==
    IF Len(parts) > 3 /\ parts[3] = <<"tree">>
    THEN [branch |-> Some(parts[4]),
          sparse_path |-> Some(Join(SubSeq(parts, 5, Len(parts)), "/"))]
    ELSE IF Len(parts) > 3 /\ parts[3] = <<"blob">>
    THEN [branch |-> Some(parts[4]),
          sparse_path |-> IF Len(parts) > 4
                          THEN Some(Join(SubSeq(parts, 5, Len(parts) - 1), "/"))
                          ELSE Some(<<>>)]
    ELSE [branch |-> None, sparse_path |-> None]

\* TreeBlob that reads a branch after any third segment
TreeBlobAnyKind(parts) ==
    IF Len(parts) > 3 /\ parts[3] /= <<"blob">>
    THEN [branch |-> Some(parts[4]),
          sparse_path |-> IF Len(parts) > 4
                          THEN Some(Join(SubSeq(parts, 5, Len(parts)), "/"))
                          ELSE None]
    ELSE IF Len(parts) > 3 /\ parts[3] = <<"blob">>
    THEN [branch |-> Some(parts[4]),
          sparse_path |-> IF Len(parts) > 4
                          THEN Some(Join(SubSeq(parts, 5, Len(parts) - 1), "/"))
                          ELSE Some(<<>>)]
    ELSE [branch |-> None, sparse_path |-> None]

\* branch and sparse_path of a tree/blob URL, from the path segments
TreeBlob(parts) ==
    IF Len(parts) > 3 /\ parts[3] = <<"tree">>
    THEN [branch |-> Some(parts[4]),
          sparse_path |-> IF Len(parts) > 4
                          THEN Some(Join(SubSeq(parts, 5, Len(parts)), "/"))
                          ELSE None]
    ELSE IF Len(parts) > 3 /\ parts[3] = <<"blob">>
    THEN [branch |-> Some(parts[4]),
          sparse_path |-> IF Len(parts) > 4
                          THEN LET dir_path == Join(SubSeq(parts, 5, Len(parts) - 1), "/")
                               IN  IF dir_path /= <<>> THEN Some(dir_path) ELSE Some(<<>>)
                          ELSE Some(<<>>)]
    ELSE [branch |-> None, sparse_path |-> None]

\* _parse_https without the test of the host
_parse_https_any_host(repo_url) ==
    LET parsed == urlparse(repo_url)
        host == parsed.netloc
        parts == Split(Strip(urlpath(repo_url), "/"), "/")
    IN  IF Len(parts) < 2
        THEN Err("Could not deduce user/repo from URL")
        ELSE LET user == parts[1]
                 repo == removesuffix(parts[2], <<".git">>)
                 user_repo == user \o <<"/">> \o repo
                 tb == TreeBlob(parts)
                 base_url == urlunparse(parsed.scheme, parsed.netloc,
                                        <<"/">> \o user_repo)
             IN  Ok(MkRepoInfo(base_url, host \o <<"/">> \o user_repo,
                               user, repo, tb.branch, tb.sparse_path))

\* RepoURLParser._parse_https
_parse_https(repo_url) ==
    LET parsed == urlparse(repo_url)
        host == parsed.netloc
    IN  IF host \notin {<<"github.com">>, <<"gitlab.com">>}
        THEN Err("Unsupported host")
        ELSE LET parts == Split(Strip(urlpath(repo_url), "/"), "/")
             IN  IF Len(parts) < 2
                 THEN Err("Could not deduce user/repo from URL")
                 ELSE LET user == parts[1]
                          repo == removesuffix(parts[2], <<".git">>)
                          user_repo == user \o <<"/">> \o repo
                          tb == TreeBlob(parts)
                          base_url == urlunparse(parsed.scheme, parsed.netloc,
                                                 <<"/">> \o user_repo)
                      IN  Ok(MkRepoInfo(base_url, host \o <<"/">> \o user_repo,
                                        user, repo, tb.branch, tb.sparse_path))

\* RepoURLParser._parse_ssh: the regular expression
\* ^git@(github\.com|gitlab\.com):([^/]+)/([^/\s]+?)(?:\.git)?$
_parse_ssh(repo_url) ==
    IF ~(/\ Len(repo_url) >= 3
         /\ repo_url[1] = "git@"
         /\ repo_url[2] \in {"github.com", "gitlab.com"}
         /\ repo_url[3] = ":")
    THEN Err("Could not deduce user/repo from SSH URL")
    ELSE LET rest == SubSeq(repo_url, 4, Len(repo_url))
             k == FirstAt(rest, 1, SlashChunks)
             user == SubSeq(rest, 1, k - 1)
             tail == SubSeq(rest, k + 1, Len(rest))
         IN  IF \/ k > Len(rest)
                \/ user = <<>>
                \/ tail = <<>>
                \/ \E j \in 1..Len(tail) : tail[j] \in SlashChunks
             THEN Err("Could not deduce user/repo from SSH URL")
             ELSE LET host == <<repo_url[2]>>
                      repo == IF Len(tail) >= 2 /\ tail[Len(tail)] = ".git"
                              THEN SubSeq(tail, 1, Len(tail) - 1)
                              ELSE tail
                      user_repo == user \o <<"/">> \o repo
                  IN  Ok(MkRepoInfo(<<"git@">> \o host \o <<":">> \o user_repo,
                                    host \o <<"/">> \o user_repo,
                                    user, repo, None, None))

\* RepoURLParser.parse / parse_repo_url
parse(repo_url) ==
    LET has(set) == \E k \in 1..Len(repo_url) : repo_url[k] \in set
        r == IF ~has(SchemeChunks) /\ ~has(AtChunks) /\ has(SlashChunks)
             THEN _parse_shorthand(repo_url)
             ELSE IF StartsWith(repo_url, <<"https://">>) THEN _parse_https(repo_url)
             ELSE IF StartsWith(repo_url, <<"git@">>) THEN _parse_ssh(repo_url)
             ELSE Err("Unsupported URL format")
    IN  IF r.error /= "" THEN r
        ELSE LET info == r.info
                 url == IF ~EndsWith(info.url, <<".git">>)
                        THEN info.url \o <<".git">> ELSE info.url
                 dir == IF EndsWith(info.dest_dir, <<".git">>)
                        THEN SubSeq(info.dest_dir, 1, Len(info.dest_dir) - 1)
                        ELSE info.dest_dir
             IN  Ok([info EXCEPT !.url = url, !.dest_dir = dir])

\* ------------------------------------------------- inputs of parse_repo_url
\* longest shorthand / SSH tail tried, in chunks
MaxShortLen == 5
\* most path segments of a web URL tried
MaxSegs == 6

ShortInputs == SeqsUpTo({"o", "r", "/", ".git"}, MaxShortLen)

\* the segments tried at position k of a web URL's path
SegChoices(k) ==
    CASE k = 1 -> {<<"o">>, <<>>}
      [] k = 2 -> {<<"r">>, <<"r", ".git">>, <<"r", ".git", ".git">>, <<".git">>, <<>>}
      [] k = 3 -> {<<"tree">>, <<"blob">>, <<"x">>}
      [] k = 4 -> {<<"main">>}
      [] OTHER -> {<<"docs">>, <<"f">>, <<>>}

RECURSIVE SegLists(_)
SegLists(n) ==
    IF n = 0 THEN {<<>>}
    ELSE {Append(l, c) : l \in SegLists(n - 1), c \in SegChoices(n)}

WebPaths ==
    {<<>>, <<"/">>}
        \cup UNION {{<<"/">> \o Join(l, "/") \o t : l \in SegLists(n), t \in {<<>>, <<"/">>}}
                    : n \in 1..MaxSegs}

WebInputs ==
    {<<"https://", h>> \o path \o q :
        h \in UrlHosts, path \in WebPaths, q \in {<<>>, <<"?", "tab=x">>}}

SshInputs ==
    {pre \o t :
        pre \in {<<"git@", h, ":">> : h \in UrlHosts}
                    \cup {<<"o", "@", "github.com", ":">>, <<"git@", "github.com", "/">>},
        t \in ShortInputs}

OtherInputs ==
    { <<"http://", "github.com", "/", "o", "/", "r">>,
      <<"ssh://", "git@", "github.com", "/", "o", "/", "r">>,
      <<"github.com">>, <<"o", "@", "r">> }

ParseInputs == ShortInputs \cup WebInputs \cup SshInputs \cup OtherInputs

\* ------------------------------------------------ calls of pure functions
\* the clone state while a pure function is called on its own
NoClone ==
    /\ fs = NoDir
    /\ fs0 = NoDir
    /\ repo_info = RepoInfo(GithubOR, DirGithubOR, None, None)
    /\ dest_dir = None
    /\ shallow = None
    /\ full = FALSE
    /\ pc = "exited"
    /\ i = 1
    /\ issued = <<>>
    /\ logrec = <<>>
    /\ stdout = <<>>
    /\ stderr = <<>>
    /\ ret = None
    /\ exit_code = None
    /\ raised = ""
    /\ calls = 1

clonevars == <<fs, fs0, repo_info, dest_dir, shallow, full, pc, i, issued, logrec,
               stdout, stderr, ret, exit_code, raised, calls>>

InitFn ==
    /\ NoClone
    /\ NoSkills
    /\ fout = <<>>
    /\ \/ fn = "access_token" /\ fin \in AccessTokenInputs
       \/ fn = "inject_token" /\ fin \in InjectInputs
       \/ fn = "parse_repo_url" /\ fin \in {<<raw>> : raw \in ParseInputs}

\* access_token(token_arg) with GITHUB_ACCESS set to fin[2]
CallAccessToken ==
    /\ fn = "access_token"
    /\ fout = <<>>
    /\ fout' = <<access_token(fin[1], fin[2])>>
    /\ UNCHANGED <<fn, fin, clonevars, skillvars>>

\* inject_token(url, token)
CallInjectToken ==
    /\ fn = "inject_token"
    /\ fout = <<>>
    /\ fout' = <<inject_token(fin[1], fin[2])>>
    /\ UNCHANGED <<fn, fin, clonevars, skillvars>>

\* parse_repo_url(repo_url)
CallParse ==
    /\ fn = "parse_repo_url"
    /\ fout = <<>>
    /\ fout' = <<parse(fin[1])>>
    /\ UNCHANGED <<fn, fin, clonevars, skillvars>>

NextFn ==
    \/ CallAccessToken
    \/ CallInjectToken
    \/ CallParse

SpecFn == InitFn /\ [][NextFn]_vars

\* a call of the function has returned
Returned(f) == fn = f /\ fout /= <<>>

\* ------------------------------------------------------ claims: inject_token
\* the web URL names exactly the host github.com
OnPrimaryHost(url) ==
    /\ Len(url) >= 2
    /\ url[1] = "https://"
    /\ url[2] = "github.com"
    /\ (Len(url) = 2 \/ url[3] \in {"/", "?", "#"})

\* C12: inject_token(url, token) returns url unchanged unless the token is
\* present and non-empty, url begins with https:// and its host is exactly
\* github.com; then the result is url with token@ inserted right before the
\* host and nothing else changed.  SSH URLs and URLs on other hosts come back
\* unchanged for every token.
C12_InjectOnlyPrimaryHttps ==
    Returned("inject_token") =>
        LET url == fin[1]
            token == fin[2]
            out == fout[1]
        IN  /\ ~(Truthy(token) /\ OnPrimaryHost(url)) => out = url
            /\ StartsWith(url, <<"git@">>) => out = url
            /\ (Len(url) >= 2 /\ url[2] /= "github.com") => out = url
            /\ (Truthy(token) /\ OnPrimaryHost(url)) =>
                   out = <<"https://">> \o Val(token) \o <<"@">> \o SubSeq(url, 2, Len(url))

\* C12 witness: a token was injected into a github.com web URL
C12_Witness ==
    /\ Returned("inject_token")
    /\ fin = <<GithubOR, Some(<<"tok">>)>>
    /\ fout[1] = <<"https://", "tok", "@", "github.com", "/", "o", "/", "r", ".git">>

\* ----------------------------------------------------- claims: access_token
\* C13: an explicit token argument, when given (not absent, not empty), is
\* returned whatever GITHUB_ACCESS holds; otherwise the environment value is
\* used: with a colon, the part after its first colon; without one, the value
\* as it is; with no environment value either, the result is absent.
C13_TokenPrecedence ==
    Returned("access_token") =>
        LET token_arg == fin[1]
            env == fin[2]
            out == fout[1]
        IN  /\ Truthy(token_arg) => out = token_arg
            /\ (~Truthy(token_arg) /\ ~Truthy(env)) => out = None
            /\ (~Truthy(token_arg) /\ Truthy(env)) =>
                   LET v == Val(env)
                       colons == {k \in 1..Len(v) : v[k] = ":"}
                   IN  /\ colons = {} => out = env
                       /\ \A k \in colons :
                             (\A j \in colons : k <= j) =>
                                 out = Some(SubSeq(v, k + 1, Len(v)))
            /\ (~Truthy(token_arg) /\ env = Some(<<"alice", ":", "tok">>)) => out = Some(<<"tok">>)

\* C13 witness: with no explicit argument the token was taken from the
\* environment value "alice:tok"
C13_Witness ==
    /\ Returned("access_token")
    /\ fin = <<None, Some(<<"alice", ":", "tok">>)>>
    /\ fout[1] = Some(<<"tok">>)

\* ---------------------------------------------------- claims: parse_repo_url
\* the input, result and descriptor of a returned parse_repo_url call
Raw == fin[1]
Accepted == Returned("parse_repo_url") /\ fout[1].error = ""
Rejected == Returned("parse_repo_url") /\ fout[1].error /= ""
Info == fout[1].info

\* a shorthand owner/repo: one "/", a non-empty owner before it and a
\* non-empty repo name after it, neither with a scheme, an "@" or a .git suffix
PlainShorthand(str) ==
    /\ CountSlash(str) = 1
    /\ Chunks(str) \cap (SchemeChunks \cup AtChunks \cup {".git"}) = {}
    /\ str[1] /= "/"
    /\ str[Len(str)] /= "/"

\* C14: for every shorthand input owner/repo, parse yields the url
\* https://github.com/owner/repo.git and the dest_dir owner/repo, user and repo
\* the two halves, branch and sparse_path absent.
C14_ShorthandDescriptor ==
    (Returned("parse_repo_url") /\ PlainShorthand(Raw)) =>
        /\ Accepted
        /\ Info.url = <<"https://", "github.com", "/">> \o Raw \o <<".git">>
        /\ Info.dest_dir = Raw
        /\ Info.user = Split(Raw, "/")[1]
        /\ Info.repo = Split(Raw, "/")[2]
        /\ Info.branch = None
        /\ Info.sparse_path = None

\* what parse does yield for a shorthand: the claimed descriptor, but with
\* the dest_dir github.com/owner/repo
ShorthandDestHasHost ==
    (Returned("parse_repo_url") /\ PlainShorthand(Raw)) =>
        /\ Accepted
        /\ Info.url = <<"https://", "github.com", "/">> \o Raw \o <<".git">>
        /\ Info.dest_dir = <<"github.com", "/">> \o Raw
        /\ Info.user = Split(Raw, "/")[1]
        /\ Info.repo = Split(Raw, "/")[2]
        /\ Info.branch = None
        /\ Info.sparse_path = None

\* after parse, the url of every descriptor ends with .git
UrlAlwaysSuffixed == Accepted => EndsWith(Info.url, <<".git">>)

\* C15: for every input that parse accepts, in any of the three forms, the
\* url of the descriptor ends with .git and its dest_dir does not end with
\* .git, also when the repo segment of the input ends in .git or .git.git.
C15_OutputShape ==
    Accepted =>
        /\ EndsWith(Info.url, <<".git">>)
        /\ ~EndsWith(Info.dest_dir, <<".git">>)

\* the SSH form yields a non-empty user and a non-empty repo
SshOwnerRepoNonEmpty ==
    (Accepted /\ StartsWith(Raw, <<"git@">>)) => (Info.user /= <<>> /\ Info.repo /= <<>>)

\* C16: for every input that parse accepts, user and repo are both non-empty;
\* an input of one of the three shapes that cannot yield both (/repo, owner/,
\* a web URL whose second path segment is empty or only .git) is rejected.
C16_OwnerRepoNonEmpty ==
    Accepted => (Info.user /= <<>> /\ Info.repo /= <<>>)

\* the input has no "://" and no "@"
NoSchemeNoAt(str) == Chunks(str) \cap (SchemeChunks \cup AtChunks) = {}

\* the input has none of the three shapes: it is not a shorthand candidate
\* (no "://", no "@", a "/"), does not begin https:// and does not begin git@
NoShape(str) ==
    /\ ~(NoSchemeNoAt(str) /\ "/" \in Chunks(str))
    /\ ~StartsWith(str, <<"https://">>)
    /\ ~StartsWith(str, <<"git@">>)

\* C17: parse fails, with no descriptor, on every input without "://" and "@"
\* that has two or more "/", and on every input of none of the three shapes
\* (no "/" at all, or a scheme other than https).
C17_RejectsNestedAndShapeless ==
    Returned("parse_repo_url") =>
        /\ (NoSchemeNoAt(Raw) /\ CountSlash(Raw) >= 2) => (Rejected /\ fout[1].info = <<>>)
        /\ NoShape(Raw) => (Rejected /\ fout[1].info = <<>>)

\* C17 witness: org/user/repo was rejected
C17_Witness ==
    /\ Rejected
    /\ Raw = <<"o", "/", "r", "/", "o">>
    /\ fout[1].info = <<>>

\* the supported hosts
SupportedHosts == {"github.com", "gitlab.com"}

\* the host of a web URL beginning https:// is a supported one
WebHostSupported(str) ==
    /\ Len(str) >= 2
    /\ str[2] \in SupportedHosts
    /\ (Len(str) = 2 \/ str[3] \in {"/", "?", "#"})

\* the host of an input beginning git@ is a supported one
SshHostSupported(str) ==
    /\ Len(str) >= 3
    /\ str[2] \in SupportedHosts
    /\ str[3] = ":"

\* the url names a supported host, in the web or the SSH form
NamesSupportedHost(url) ==
    /\ Len(url) >= 3
    /\ url[2] \in SupportedHosts
    /\ \/ url[1] = "https://" /\ url[3] = "/"
       \/ url[1] = "git@" /\ url[3] = ":"

\* C18: a web URL whose host is not github.com or gitlab.com is rejected, an
\* SSH-form input whose host is not one of them is rejected, and the url of
\* every descriptor parse returns names one of the two hosts.
C18_HostRestriction ==
    Returned("parse_repo_url") =>
        /\ (StartsWith(Raw, <<"https://">>) /\ ~WebHostSupported(Raw)) => Rejected
        /\ (StartsWith(Raw, <<"git@">>) /\ ~SshHostSupported(Raw)) => Rejected
        /\ Accepted => NamesSupportedHost(Info.url)

\* C18 witness: a web URL on example.com was rejected
C18_Witness ==
    /\ Rejected
    /\ Raw = <<"https://", "example.com", "/", "o", "/", "r">>

\* the path segments of a web URL: its path without query, without leading
\* and trailing "/", cut at each "/"
PathSegments(str) == Split(Strip(urlpath(str), "/"), "/")

\* the input is an accepted web URL whose third path segment is kind and
\* that has a fourth segment
AcceptedWebOf(kind) ==
    /\ Accepted
    /\ StartsWith(Raw, <<"https://">>)
    /\ Len(PathSegments(Raw)) >= 4
    /\ PathSegments(Raw)[3] = <<kind>>

\* C19: for a web URL whose third path segment is blob, branch is the fourth
\* segment and sparse_path is the segments after the branch without the last
\* one (the file name), joined by "/"; for a file at the root of the branch
\* sparse_path is the empty string, not absent.
C19_BlobBranchAndDirectory ==
    AcceptedWebOf("blob") =>
        LET segs == PathSegments(Raw)
            dirs == IF Len(segs) > 5 THEN SubSeq(segs, 5, Len(segs) - 1) ELSE <<>>
        IN  /\ Info.branch = Some(segs[4])
            /\ Info.sparse_path = Some(Join(dirs, "/"))
            /\ Info.sparse_path /= None
            /\ Len(segs) <= 5 => Info.sparse_path = Some(<<>>)
            /\ Raw = <<"https://", "github.com", "/", "o", "/", "r", "/", "blob", "/",
                       "main", "/", "docs", "/", "f">>
                   => Info.sparse_path = Some(<<"docs">>)

\* C19 witness: a blob URL of a file at the root of branch main was parsed
C19_Witness ==
    /\ Accepted
    /\ Raw = <<"https://", "github.com", "/", "o", "/", "r", "/", "blob", "/", "main", "/", "f">>
    /\ Info.branch = Some(<<"main">>)
    /\ Info.sparse_path = Some(<<>>)

\* C20: for a web URL whose third path segment is tree, branch is the fourth
\* segment and sparse_path is all the segments after it joined by "/"; when
\* nothing follows the branch, sparse_path is absent, not the empty string.
C20_TreeBranchAndPath ==
    AcceptedWebOf("tree") =>
        LET segs == PathSegments(Raw)
        IN  /\ Info.branch = Some(segs[4])
            /\ Len(segs) > 4 => Info.sparse_path = Some(Join(SubSeq(segs, 5, Len(segs)), "/"))
            /\ Len(segs) = 4 => Info.sparse_path = None
            /\ Raw = <<"https://", "github.com", "/", "o", "/", "r", "/", "tree", "/",
                       "main", "/", "docs", "/", "f">>
                   => Info.sparse_path = Some(<<"docs", "/", "f">>)

\* C20 witness: a tree URL with a query and nothing after the branch was parsed
C20_Witness ==
    /\ Accepted
    /\ Raw = <<"https://", "github.com", "/", "o", "/", "r", "/", "tree", "/", "main",
               "?", "tab=x">>
    /\ Info.branch = Some(<<"main">>)
    /\ Info.sparse_path = None

\* a web URL cut after its first two path segments: no tree/blob suffix, no
\* further segment, no query
Base(str) ==
    LET segs == PathSegments(str)
    IN  <<"https://", str[2], "/">> \o segs[1] \o <<"/">> \o segs[2]

\* an accepted web URL with two path segments, the second one not empty
AcceptedWeb ==
    /\ Accepted
    /\ StartsWith(Raw, <<"https://">>)
    /\ Len(Raw) >= 2
    /\ Len(PathSegments(Raw)) >= 2
    /\ PathSegments(Raw)[2] /= <<>>

\* the chunks of scheme, host and the first two path segments of a web URL
BaseChunks(str) ==
    {"https://", str[2], "/", ".git"}
        \cup Chunks(PathSegments(str)[1]) \cup Chunks(PathSegments(str)[2])

\* a web URL and the same URL cut after its second path segment give the same
\* url, dest_dir, user and repo, and none of them holds a chunk of the rest
WebUrlIgnoresSuffix ==
    AcceptedWeb =>
        LET b == parse(Base(Raw))
        IN  /\ b.error = ""
            /\ b.info.url = Info.url
            /\ b.info.dest_dir = Info.dest_dir
            /\ b.info.user = Info.user
            /\ b.info.repo = Info.repo
            /\ Chunks(Info.url) \subseteq BaseChunks(Raw)
            /\ Chunks(Info.dest_dir) \subseteq BaseChunks(Raw)

\* C21: for every accepted web URL the url of the descriptor is exactly
\* https://<host>/<user>/<repo>.git, built from scheme, host and the first
\* two path segments only: no tree/blob suffix, further segment or query of
\* the input appears in url or dest_dir, and inputs that differ only in those
\* parts give the same url and dest_dir.
C21_CanonicalWebUrl ==
    AcceptedWeb =>
        /\ Info.url = <<"https://", Raw[2], "/">> \o Info.user \o <<"/">> \o Info.repo \o <<".git">>
        /\ Chunks(Info.url) \subseteq BaseChunks(Raw)
        /\ Chunks(Info.dest_dir) \subseteq BaseChunks(Raw)
        /\ parse(Base(Raw)).error = ""
        /\ parse(Base(Raw)).info.url = Info.url
        /\ parse(Base(Raw)).info.dest_dir = Info.dest_dir

\* parsing the url of a descriptor again succeeds and gives the same url and
\* dest_dir
ReparseKeepsUrl ==
    (AcceptedWeb /\ EndsWith(Raw, <<".git">>)) =>
        LET again == parse(Info.url)
        IN  /\ again.error = ""
            /\ again.info.url = Info.url
            /\ again.info.dest_dir = Info.dest_dir
            /\ again.info.user = Info.user

\* C22: for every accepted web input that ends in .git, parsing the url of
\* the descriptor again succeeds and yields the same url, dest_dir, user and
\* repo as the first parse.
C22_ReparseIdempotent ==
    (Accepted /\ StartsWith(Raw, <<"https://">>) /\ EndsWith(Raw, <<".git">>)) =>
        LET again == parse(Info.url)
        IN  /\ again.error = ""
            /\ again.info.url = Info.url
            /\ again.info.dest_dir = Info.dest_dir
            /\ again.info.user = Info.user
            /\ again.info.repo = Info.repo

\* the input is a web URL of the tree or blob form: its third path segment
\* is tree or blob and it has a fourth one
TreeOrBlobForm(str) ==
    /\ StartsWith(str, <<"https://">>)
    /\ Len(PathSegments(str)) >= 4
    /\ PathSegments(str)[3] \in {<<"tree">>, <<"blob">>}

\* C23: branch and sparse_path are set only by the web tree/blob forms: every
\* accepted shorthand, SSH-form input and web URL that is not of the tree or
\* blob form has both absent; and whenever sparse_path is present, so is
\* branch.
C23_BranchOnlyFromTreeBlob ==
    Accepted =>
        /\ ~TreeOrBlobForm(Raw) => (Info.branch = None /\ Info.sparse_path = None)
        /\ NoSchemeNoAt(Raw) => (Info.branch = None /\ Info.sparse_path = None)
        /\ StartsWith(Raw, <<"git@">>) => (Info.branch = None /\ Info.sparse_path = None)
        /\ Info.sparse_path /= None => Info.branch /= None

\* C23 witness: a web URL whose third segment is neither tree nor blob was
\* parsed, with a fourth segment, and has no branch and no sparse_path
C23_Witness ==
    /\ Accepted
    /\ Raw = <<"https://", "github.com", "/", "o", "/", "r", "/", "x", "/", "main">>
    /\ Info.branch = None
    /\ Info.sparse_path = None

\* ------------------------------------------------- ctrlv: ClipboardWriter
\* most items of one write_all call, and most write_all calls on one directory
MaxItems == 2
MaxWrites == 2

\* TextItem(text), ImageItem(data, ext), FileItem(path): name is path.name
TextItem == [kind |-> "text", ext |-> "", name |-> <<>>]
ImageItem(ext) == [kind |-> "image", ext |-> ext, name |-> <<>>]
FileItem(name) == [kind |-> "file", ext |-> "", name |-> name]

\* "." + ext
DotExt(ext) == CASE ext = "png" -> ".png" [] ext = "jpg" -> ".jpg" [] OTHER -> ".tiff"

\* Path(name).suffix and Path(name).stem: the suffix is the last chunk when it
\* begins with "." and is not the whole name
PathSuffix(name) ==
    IF Len(name) >= 2 /\ name[Len(name)] \in {".txt", ".png", ".jpg", ".tiff"}
    THEN <<name[Len(name)]>> ELSE <<>>
PathStem(name) == SubSeq(name, 1, Len(name) - Len(PathSuffix(name)))

\* the clipboard items tried: a text, an image, and files whose names collide
\* with each other or with the numbered names of texts and images
Items ==
    { TextItem, ImageItem("png"), FileItem(<<"Makefile">>), FileItem(<<"2", ".txt">>) }
ItemLists == SeqsUpTo(Items, MaxItems)

\* files of a directory are records [name, by]: by is the index of the item
\* of the current write_all call that wrote the file, 0 for a file that was
\* there before the call
PathExists(files, name) == \E f \in files : f.name = name
WriteFile(files, name, index) ==
    {f \in files : f.name /= name} \cup {[name |-> name, by |-> index]}
Names(files) == {f.name : f \in files}
Aged(files) == {[name |-> f.name, by |-> 0] : f \in files}

\* ClipboardWriter._reset
_reset(d) == [exists |-> TRUE, files |-> {}]

\* ClipboardWriter._unique_path: the loop from i = 2
RECURSIVE FirstFree(_, _, _, _)
FirstFree(files, stem, suffix, n) ==
    LET path == stem \o <<"_", ToString(n)>> \o suffix
    IN  IF ~PathExists(files, path) THEN path
        ELSE FirstFree(files, stem, suffix, n + 1)

_unique_path(files, name) ==
    IF ~PathExists(files, name) THEN name
    ELSE FirstFree(files, PathStem(name), PathSuffix(name), 2)

\* ClipboardWriter._write_item: the path written and the files afterwards
_write_item(files, index, item) ==
    LET path == CASE item.kind = "text" -> <<ToString(index), ".txt">>
                  [] item.kind = "image" -> <<ToString(index), DotExt(item.ext)>>
                  [] OTHER -> _unique_path(files, item.name)
    IN  [path |-> path, files |-> WriteFile(files, path, index)]

\* the loop of write_all from item number index on
RECURSIVE WriteItems(_, _, _, _)
WriteItems(files, items, index, paths) ==
    IF index > Len(items) THEN [files |-> files, paths |-> paths]
    ELSE LET w == _write_item(files, index, items[index])
         IN  WriteItems(w.files, items, index + 1, Append(paths, w.path))

\* write_all that never wipes the directory
write_all_no_reset(d, items, append) ==
    LET r == WriteItems(Aged(d.files), items, 1, <<>>)
    IN  [dir |-> [exists |-> TRUE, files |-> r.files], paths |-> r.paths]

\* ClipboardWriter.write_all: the directory afterwards and the paths returned
write_all(d, items, append) ==
    LET start == IF append THEN [exists |-> TRUE, files |-> Aged(d.files)] ELSE _reset(d)
        r == WriteItems(start.files, items, 1, <<>>)
    IN  [dir |-> [exists |-> TRUE, files |-> r.files], paths |-> r.paths]

\* one call writer.write_all(items, append=append)
WriteAll ==
    /\ written.n < MaxWrites
    /\ \E items \in ItemLists, append \in BOOLEAN :
        LET r == write_all(ctrlv_dir, items, append)
        IN  /\ ctrlv_dir' = r.dir
            /\ written' = [n |-> written.n + 1, items |-> items, append |-> append,
                           before |-> Aged(ctrlv_dir.files), paths |-> r.paths]
    /\ UNCHANGED <<clonevars, fnvars, sessions, renumber>>

InitCtrlv ==
    /\ NoClone
    /\ fn = "idle"
    /\ fin = <<>>
    /\ fout = <<>>
    /\ NoSkills

NextCtrlv == WriteAll

SpecCtrlv == InitCtrlv /\ [][NextCtrlv]_vars

\* the paths a write_all call returned
ReturnedPaths == {written.paths[k] : k \in 1..Len(written.paths)}

\* C24: write_all with append=False wipes the destination first: when it has
\* returned, the directory holds exactly the files written for the items of
\* this call and no file of an earlier call, whatever calls came before; with
\* append=True no file that was in the directory is removed.
C24_WipeUnlessAppend ==
    written.n >= 1 =>
        /\ ctrlv_dir.exists
        /\ ~written.append =>
              /\ Names(ctrlv_dir.files) = ReturnedPaths
              /\ \A f \in ctrlv_dir.files : f.by >= 1
        /\ written.append =>
              /\ Names(written.before) \subseteq Names(ctrlv_dir.files)
              /\ Names(ctrlv_dir.files) = Names(written.before) \cup ReturnedPaths

\* C24 witness: a second call with append=False found files of the first
\* call and left only its own
C24_Witness ==
    /\ written.n = 2
    /\ ~written.append
    /\ <<"Makefile">> \in Names(written.before)
    /\ written.items = <<TextItem>>
    /\ ctrlv_dir.files = {[name |-> <<"1", ".txt">>, by |-> 1]}

\* a file item never overwrites: its path was free when it was written, and
\* when its name was taken the path is <stem>_<n><suffix> for the least n >= 2
\* that was free
FileItemsNeverOverwrite ==
    \A k \in 1..Len(written.paths) :
        written.items[k].kind = "file" =>
            LET taken == Names(IF written.append THEN written.before ELSE {})
                             \cup {written.paths[j] : j \in 1..(k - 1)}
                name == written.items[k].name
                numbered(n) == PathStem(name) \o <<"_", ToString(n)>> \o PathSuffix(name)
            IN  /\ written.paths[k] \notin taken
                /\ name \notin taken => written.paths[k] = name
                /\ name \in taken =>
                      \E n \in 2..(Cardinality(taken) + 2) :
                          /\ written.paths[k] = numbered(n)
                          /\ \A m \in 2..(n - 1) : numbered(m) \in taken

\* C29: within one write_all call the returned paths are pairwise distinct and
\* no item's file is overwritten by a later item of the call; a file item
\* whose name is taken is written to <stem>_<n><suffix> for the least free
\* n >= 2; with append=True no file that existed before the call is
\* overwritten.
C29_NoOverwriteWithinCall ==
    written.n >= 1 =>
        /\ \A j, k \in 1..Len(written.paths) : j /= k => written.paths[j] /= written.paths[k]
        /\ \A k \in 1..Len(written.paths) :
              [name |-> written.paths[k], by |-> k] \in ctrlv_dir.files
        /\ FileItemsNeverOverwrite
        /\ written.append => written.before \subseteq ctrlv_dir.files

\* ------------------------------------------------------ dotenv-ls: parser.py
\* A line is a string of chunks: " " is whitespace, a chunk beginning "#" is
\* the text of a comment, "export " is the export prefix with its whitespace,
\* identifiers and "=" are chunks of their own.
Identifiers == {"FOO", "BAR", "BAZ"}
CommentChunks == {"# c1", "# c2"}

\* line.strip()
Stripped(line) == Strip(line, " ")

\* not stripped
IsBlank(line) == Stripped(line) = <<>>

\* stripped.startswith("#")
IsComment(line) == ~IsBlank(line) /\ Stripped(line)[1] \in CommentChunks

\* the stripped line without an export prefix
AfterExport(line) ==
    IF Stripped(line) /= <<>> /\ Stripped(line)[1] = "export "
    THEN Tail(Stripped(line)) ELSE Stripped(line)

\* _ENV_LINE.match(stripped) and its group 1
IsVar(line) ==
    /\ ~IsBlank(line)
    /\ ~IsComment(line)
    /\ Len(AfterExport(line)) >= 2
    /\ AfterExport(line)[1] \in Identifiers
    /\ AfterExport(line)[2] = "="
VarName(line) == <<AfterExport(line)[1]>>

\* EnvVar(name=..., filepath=..., comment=...)
EnvVar(name, filepath, comment) == [name |-> name, filepath |-> filepath, comment |-> comment]

\* the loop of parse_env_file from line k on
RECURSIVE ScanLines(_, _, _, _, _)
ScanLines(filepath, lines, k, prev_comment, entries) ==
    IF k > Len(lines) THEN entries
    ELSE IF IsBlank(lines[k]) THEN ScanLines(filepath, lines, k + 1, None, entries)
    ELSE IF IsComment(lines[k])
    THEN ScanLines(filepath, lines, k + 1, Some(Stripped(lines[k])), entries)
    ELSE IF IsVar(lines[k])
    THEN ScanLines(filepath, lines, k + 1, None,
                   Append(entries, EnvVar(VarName(lines[k]), filepath, prev_comment)))
    ELSE ScanLines(filepath, lines, k + 1, None, entries)

\* the loop of parse_env_file when a blank line keeps the comment
RECURSIVE ScanLinesSticky(_, _, _, _, _)
ScanLinesSticky(filepath, lines, k, prev_comment, entries) ==
    IF k > Len(lines) THEN entries
    ELSE IF IsBlank(lines[k]) THEN ScanLinesSticky(filepath, lines, k + 1, prev_comment, entries)
    ELSE IF IsComment(lines[k])
    THEN ScanLinesSticky(filepath, lines, k + 1, Some(Stripped(lines[k])), entries)
    ELSE IF IsVar(lines[k])
    THEN ScanLinesSticky(filepath, lines, k + 1, None,
                         Append(entries, EnvVar(VarName(lines[k]), filepath, prev_comment)))
    ELSE ScanLinesSticky(filepath, lines, k + 1, None, entries)

\* parse_env_file where a blank line does not clear the comment
parse_env_file_sticky(filepath, lines) == ScanLinesSticky(filepath, lines, 1, None, <<>>)

\* parse_env_file(filepath), with the lines of the file as second argument
parse_env_file(filepath, lines) == ScanLines(filepath, lines, 1, None, <<>>)

\* the order of Python strings on the names and paths used
StrRank(str) ==
    CASE str = <<"BAR">> -> 1
      [] str = <<"BAZ">> -> 2
      [] str = <<"FOO">> -> 3
      [] str = <<"base.env">> -> 4
      [] OTHER -> 5

\* (e.filepath, e.name) < (f.filepath, f.name)
KeyBefore(e, f) ==
    \/ StrRank(e.filepath) < StrRank(f.filepath)
    \/ e.filepath = f.filepath /\ StrRank(e.name) < StrRank(f.name)

\* sorted(values, key=lambda e: (e.filepath, e.name))
RECURSIVE Sorted(_)
Sorted(values) ==
    IF values = {} THEN <<>>
    ELSE LET first == CHOOSE e \in values : \A f \in values \ {e} : KeyBefore(e, f)
         IN  <<first>> \o Sorted(values \ {first})

\* resolved[entry.name] = entry, for the entries of one file from number k on
RECURSIVE Resolve(_, _, _)
Resolve(resolved, entries, k) ==
    IF k > Len(entries) THEN resolved
    ELSE Resolve({e \in resolved : e.name /= entries[k].name} \cup {entries[k]}, entries, k + 1)

\* Resolve that keeps the first definition of a name
RECURSIVE ResolveFirstWins(_, _, _)
ResolveFirstWins(resolved, entries, k) ==
    IF k > Len(entries) THEN resolved
    ELSE ResolveFirstWins(IF \E e \in resolved : e.name = entries[k].name
                          THEN resolved ELSE resolved \cup {entries[k]}, entries, k + 1)

\* the loop of parse_env_files over the files from number k on
RECURSIVE ResolveFiles(_, _, _, _)
ResolveFiles(resolved, filepaths, disk, k) ==
    IF k > Len(filepaths) THEN resolved
    ELSE ResolveFiles(Resolve(resolved, parse_env_file(filepaths[k], disk[filepaths[k]]), 1),
                      filepaths, disk, k + 1)

RECURSIVE ResolveFilesFirstWins(_, _, _, _)
ResolveFilesFirstWins(resolved, filepaths, disk, k) ==
    IF k > Len(filepaths) THEN resolved
    ELSE ResolveFilesFirstWins(
             ResolveFirstWins(resolved, parse_env_file(filepaths[k], disk[filepaths[k]]), 1),
             filepaths, disk, k + 1)

\* parse_env_files where an earlier definition wins
parse_env_files_first_wins(filepaths, disk) == Sorted(ResolveFilesFirstWins({}, filepaths, disk, 1))

\* parse_env_files(filepaths), with the files on disk as second argument
parse_env_files(filepaths, disk) == Sorted(ResolveFiles({}, filepaths, disk, 1))

\* ---------------------------------------------------- inputs of dotenv-ls
\* most lines of a file given to parse_env_file, most lines of a file given
\* to parse_env_files, most files in its list
MaxLines == 3
MaxOverrideLines == 2
MaxFiles == 2

\* blank, whitespace, comments (one indented), definitions (plain, exported,
\* quoted) and a line that is none of these
LineChoices ==
    { <<>>, <<" ">>, <<"# c1">>, <<" ", "# c2">>,
      <<"FOO", "=", "v">>, <<"export ", "BAR", "=", "v">>, <<"BAZ", "=", "\"v\"">>,
      <<"FOO", " ", "=", "v">> }
EnvFileInputs == {<<<<".env">>, lines>> : lines \in SeqsUpTo(LineChoices, MaxLines)}

EnvPaths == {<<"base.env">>, <<"local.env">>}
OverrideLines == { <<"# c1">>, <<"# c2">>, <<"FOO", "=", "v">>, <<"BAR", "=", "v">> }
EnvDisks == [EnvPaths -> SeqsUpTo(OverrideLines, MaxOverrideLines)]
EnvFilesInputs == {<<filepaths, disk>> : filepaths \in SeqsUpTo(EnvPaths, MaxFiles), disk \in EnvDisks}

InitEnv ==
    /\ NoClone
    /\ NoSkills
    /\ fout = <<>>
    /\ \/ fn = "parse_env_file" /\ fin \in EnvFileInputs
       \/ fn = "parse_env_files" /\ fin \in EnvFilesInputs

\* parse_env_file(filepath)
CallParseEnvFile ==
    /\ fn = "parse_env_file"
    /\ fout = <<>>
    /\ fout' = <<parse_env_file(fin[1], fin[2])>>
    /\ UNCHANGED <<fn, fin, clonevars, skillvars>>

\* parse_env_files(filepaths)
CallParseEnvFiles ==
    /\ fn = "parse_env_files"
    /\ fout = <<>>
    /\ fout' = <<parse_env_files(fin[1], fin[2])>>
    /\ UNCHANGED <<fn, fin, clonevars, skillvars>>

NextEnv ==
    \/ CallParseEnvFile
    \/ CallParseEnvFiles

SpecEnv == InitEnv /\ [][NextEnv]_vars

\* ------------------------------------------------------ claims: dotenv-ls
\* the line numbers of the variable definitions of a file, and the line
\* number of its j-th definition
VarLines(lines) == {k \in 1..Len(lines) : IsVar(lines[k])}
NthVarLine(lines, j) ==
    CHOOSE k \in VarLines(lines) : Cardinality({m \in VarLines(lines) : m <= k}) = j

\* C25: parse_env_file returns the variables in file order, export prefixes
\* and quoted values accepted; the comment of a variable is the comment line
\* immediately above its definition (the last of a run of comment lines) and
\* is absent when the line above is blank, matches nothing or defines
\* another variable, so a comment goes to at most one variable.
C25_CommentImmediatelyAbove ==
    Returned("parse_env_file") =>
        LET lines == fin[2]
            out == fout[1]
        IN  /\ Len(out) = Cardinality(VarLines(lines))
            /\ \A j \in 1..Len(out) :
                  LET k == NthVarLine(lines, j)
                  IN  /\ out[j].name = VarName(lines[k])
                      /\ out[j].filepath = fin[1]
                      /\ out[j].comment =
                             IF k > 1 /\ IsComment(lines[k - 1])
                             THEN Some(Stripped(lines[k - 1])) ELSE None

\* C25 witness: of two comment lines the second one went to the exported
\* variable below them
C25_Witness ==
    /\ Returned("parse_env_file")
    /\ fin[2] = << <<"# c1">>, <<" ", "# c2">>, <<"export ", "BAR", "=", "v">> >>
    /\ fout[1] = << EnvVar(<<"BAR">>, <<".env">>, Some(<<"# c2">>)) >>

\* the number of the last file of the list that defines the name, 0 if none
LastDefining(filepaths, disk, name) ==
    LET defining == {p \in 1..Len(filepaths) :
                        \E k \in VarLines(disk[filepaths[p]]) :
                            VarName(disk[filepaths[p]][k]) = name}
    IN  IF defining = {} THEN 0 ELSE CHOOSE p \in defining : \A q \in defining : q <= p

\* the comment of the last definition of the name in the file
LastComment(lines, name) ==
    LET defs == {k \in VarLines(lines) : VarName(lines[k]) = name}
        k == CHOOSE m \in defs : \A q \in defs : q <= m
    IN  IF k > 1 /\ IsComment(lines[k - 1]) THEN Some(Stripped(lines[k - 1])) ELSE None

\* C26: parse_env_files lets later files override earlier ones: every name
\* defined in some file of the list appears exactly once, with the path of
\* the last file of the list that defines it and the comment of its last
\* definition there; the result is sorted by (filepath, name).
C26_LaterFilesOverride ==
    Returned("parse_env_files") =>
        LET filepaths == fin[1]
            disk == fin[2]
            out == fout[1]
            defined == {n \in {<<c>> : c \in Identifiers} : LastDefining(filepaths, disk, n) > 0}
        IN  /\ {out[j].name : j \in 1..Len(out)} = defined
            /\ Len(out) = Cardinality(defined)
            /\ \A j \in 1..Len(out) :
                  out[j].name \in defined =>
                      LET p == LastDefining(filepaths, disk, out[j].name)
                      IN  /\ out[j].filepath = filepaths[p]
                          /\ out[j].comment = LastComment(disk[filepaths[p]], out[j].name)
            /\ \A j, k \in 1..Len(out) : j < k => KeyBefore(out[j], out[k])

\* C26 witness: FOO is defined in both files and resolved from the later one
\* with its comment, BAR only in the earlier one
C26_Witness ==
    /\ Returned("parse_env_files")
    /\ fin[1] = << <<"base.env">>, <<"local.env">> >>
    /\ fin[2][<<"base.env">>] = << <<"FOO", "=", "v">>, <<"BAR", "=", "v">> >>
    /\ fin[2][<<"local.env">>] = << <<"# c2">>, <<"FOO", "=", "v">> >>
    /\ fout[1] = << EnvVar(<<"BAR">>, <<"base.env">>, None),
                    EnvVar(<<"FOO">>, <<"local.env">>, Some(<<"# c2">>)) >>

\* ------------------------------------------- the orchestrator and the branch
\* the descriptor of this run with its branch replaced
WithBranch(branch) == [repo_info EXCEPT !.branch = branch]

\* branch values a descriptor can carry: absent, or a branch name
BranchChoices == {None, Some(<<"main">>), Some(<<"dev">>)}

\* C27: the orchestrator never uses the descriptor's branch: at every point of
\* a run the commands issued so far are the first commands of the plan of
\* the same descriptor with any other branch value (absent or a name), and
\* a run that returns has created master from origin/HEAD, checked it out
\* and set its upstream to origin/HEAD.
C27_BranchNeverUsed ==
    /\ \A b \in BranchChoices :
          LET plan == PlannedCmds(WithBranch(b), shallow, full)
          IN  /\ Len(issued) <= Len(plan)
              /\ \A k \in 1..Len(issued) : Cmd(k) = plan[k]
    /\ ~IsNone(ret) =>
          /\ Issued(<<"git branch -f master origin/HEAD">>)
          /\ Issued(<<"git checkout master">>)
          /\ Issued(<<"git branch --set-upstream-to=origin/HEAD master">>)

\* C27 witness: a run whose descriptor names the branch main (from a
\* tree/main URL) has returned after checking out master
C27_Witness ==
    /\ ~IsNone(ret)
    /\ repo_info.branch = Some(<<"main">>)
    /\ IsNone(repo_info.sparse_path)
    /\ Issued(<<"git checkout master">>)
    /\ ~Issued(<<"git checkout ", "main">>)

\* -------------------------------------------------- the token and the log
\* the token is in at most one issued command, git remote add origin, and
\* only when the URL is an https URL on github.com
TokenOnlyInRemoteAdd ==
    /\ \A k \in 1..Len(issued) :
          HasToken(Cmd(k)) =>
              /\ StartsWith(Cmd(k), <<"git remote add origin ">>)
              /\ OnPrimaryHost(repo_info.url)
    /\ Cardinality({k \in 1..Len(issued) : HasToken(Cmd(k))}) <= 1

\* C28 (as claimed): the token is in at most one issued command, git remote
\* add origin on an https github.com URL, and in no log record of the run.
C28_TokenNotLeaked ==
    /\ TokenOnlyInRemoteAdd
    /\ \A k \in 1..Len(logrec) : ~HasToken(logrec[k])

\* ===================================================== shell-helper: tmux
\* sessions: the tmux server's sessions, each with the name it had when the
\* behaviour started (id) and its current name.  renumber: the position of
\* one call of _renumber_sessions (pc), the sessions at its start, the
\* sorted list of the loop (todo), the loop's new_index (k) and the
\* rename-session commands issued so far (log).

\* digit-only names run from "0" to ToString(MaxSession)
MaxSession == 3

\* a digit-only name with a leading zero
LeadingZero == {"01"}

CanonicalDigits == {ToString(n) : n \in 0..MaxSession}

\* s.isdigit() over the session names of the model
isdigit(name) == name \in CanonicalDigits \cup LeadingZero

\* int(s) for a digit-only name
int(name) ==
    IF name \in LeadingZero THEN 1
    ELSE CHOOSE n \in 0..MaxSession : ToString(n) = name

SessionNames == CanonicalDigits \cup LeadingZero \cup {"main"}

Session(name) == [id |-> name, name |-> name]

CurrentNames == {s.name : s \in sessions}

\* the order of sessions.sort(key=int) over the output of list-sessions:
\* by integer value, names of equal value in the order tmux lists them
\* (by name, so "01" before "1")
SortsBefore(a, b) ==
    \/ int(a) < int(b)
    \/ (int(a) = int(b) /\ a \in LeadingZero /\ b \notin LeadingZero)

RECURSIVE SortByInt(_)
SortByInt(names) ==
    IF names = {} THEN <<>>
    ELSE LET first == CHOOSE a \in names : \A b \in names \ {a} : SortsBefore(a, b)
         IN  <<first>> \o SortByInt(names \ {first})

\* tmux rename-session -t old new: fails when no session is named old or
\* when another session already holds new
RenameFails(old, new) ==
    \/ old \notin CurrentNames
    \/ (new /= old /\ new \in CurrentNames)

\* the sessions after a successful tmux rename-session -t old new
rename_session(old, new) ==
    {IF s.name = old THEN [s EXCEPT !.name = new] ELSE s : s \in sessions}

\* _renumber_sessions, one iteration of the for loop: a rename is issued
\* only when str(new_index) differs from old_name; a failing rename raises
\* CalledProcessError out of the function (_run has check=True)
RenameStep(new_index, old_name) ==
    LET new == ToString(new_index)
        free == new \notin CurrentNames
    IN  IF new = old_name
        THEN /\ renumber' = [renumber EXCEPT !.k = @ + 1]
             /\ UNCHANGED sessions
        ELSE /\ renumber' = [renumber EXCEPT
                    !.log = Append(@, [old |-> old_name, new |-> new, free |-> free]),
                    !.k = @ + 1,
                    !.pc = IF RenameFails(old_name, new) THEN "raised" ELSE @]
             /\ sessions' = IF RenameFails(old_name, new) THEN sessions
                            ELSE rename_session(old_name, new)

\* _renumber_sessions up to the loop: list-sessions fails when the server
\* has no session, and the function returns; otherwise the digit-only names
\* are sorted by integer value
ListSessions ==
    /\ renumber.pc = "idle"
    /\ renumber' =
          IF sessions = {}
          THEN [renumber EXCEPT !.pc = "returned", !.start = sessions]
          ELSE [renumber EXCEPT !.pc = "loop", !.start = sessions, !.k = 1,
                    !.todo = SortByInt({n \in CurrentNames : isdigit(n)})]
    /\ UNCHANGED <<sessions, ctrlv_dir, written, clonevars, fnvars>>

Rename ==
    /\ renumber.pc = "loop"
    /\ renumber.k <= Len(renumber.todo)
    /\ RenameStep(renumber.k, renumber.todo[renumber.k])
    /\ UNCHANGED <<ctrlv_dir, written, clonevars, fnvars>>

RenumberReturn ==
    /\ renumber.pc = "loop"
    /\ renumber.k > Len(renumber.todo)
    /\ renumber' = [renumber EXCEPT !.pc = "returned"]
    /\ UNCHANGED <<sessions, ctrlv_dir, written, clonevars, fnvars>>

InitTmux ==
    /\ NoClone
    /\ fn = "idle" /\ fin = <<>> /\ fout = <<>>
    /\ ctrlv_dir = [exists |-> FALSE, files |-> {}]
    /\ written = [n |-> 0, items |-> <<>>, append |-> FALSE, before |-> {}, paths |-> <<>>]
    /\ sessions \in {{Session(n) : n \in S} : S \in SUBSET SessionNames}
    /\ renumber = [pc |-> "idle", start |-> {}, todo |-> <<>>, k |-> 1, log |-> <<>>]

NextTmux == ListSessions \/ Rename \/ RenumberReturn

SpecTmux == InitTmux /\ [][NextTmux]_vars

\* the sessions whose name was digit-only when the behaviour started
DigitSessions == {s \in sessions : isdigit(s.id)}

\* no rename was refused and every rename issued so far went to a name no
\* session held at that moment
RenamesAllFree ==
    /\ renumber.pc /= "raised"
    /\ \A j \in 1..Len(renumber.log) : renumber.log[j].free

\* after the return the digit-only sessions are named 1..n in their original
\* numeric order, and the other sessions keep their names
RenumberedInOrder ==
    renumber.pc = "returned" =>
        LET order == SortByInt({s.id : s \in DigitSessions})
        IN  /\ \A s \in DigitSessions :
                  \E j \in 1..Len(order) : order[j] = s.id /\ s.name = ToString(j)
            /\ \A s \in sessions : ~isdigit(s.id) => s.name = s.id
            /\ {s.id : s \in sessions} = {s.id : s \in renumber.start}

\* every session that had a digit-only name at the start was numbered from
\* 1 and written without a leading zero
NumberedFromOne ==
    \A s \in sessions : s.id \notin {"0"} \cup LeadingZero

\* for sessions numbered from 1, gaps included, no rename fails or goes to
\* a held name and the result is 1..n in order
RenumberSafeFromOne == NumberedFromOne => (RenamesAllFree /\ RenumberedInOrder)

\* C30 (as claimed): for every set of session names, a session named 0
\* included, each rename goes to a name no session holds at that moment, no
\* rename fails, and after the return the digit-only sessions are named
\* 1..n in their original numeric order with the other sessions unchanged.
C30_RenumberSafe == RenamesAllFree /\ RenumberedInOrder

====
